---- MODULE Spec2Model ----
(***************************************************************************)
(* Model of attila.notifications.sql.SQLNotifier: the field-mapping line  *)
(* parser, the constructor / config loader, and the dispatch call.        *)
(*                                                                         *)
(* A Python str is modelled as a sequence of one-character strings, so    *)
(* that scanning, stripping, case folding and interpolation are computed  *)
(* character by character as the code does.                               *)
(***************************************************************************)
EXTENDS Integers, Sequences, FiniteSets, TLC

VARIABLES
    line,          \* the argument handed to _parse_field_mapping_line
    parsed,        \* what that call returned or raised (NotParsed before it)
    status,        \* "unbuilt" | "ready" | "rejected": outcome of construction
    via,           \* "none" | "__init__" | "load_config_section"
    given,         \* the arguments construction was attempted with
    _table,        \* self._table
    _fields,       \* self._fields (tuple of entries)
    _command_type, \* self._command_type
    executed,      \* commands received by self._connection.execute, in order
    call           \* record of the last __call__ (NoCall before the first)

vars == <<line, parsed, status, via, given, _table, _fields, _command_type, executed, call>>

(***************************************************************************)
(* Bounds of the model.                                                    *)
(***************************************************************************)
MaxRest == 6     \* free text after the type token, in characters
MaxName == 3     \* characters between '[' and ']' in composed lines
MaxFields == 2   \* field mappings per notifier
MaxCalls == 1    \* dispatch calls per notifier

(***************************************************************************)
(* str methods                                                             *)
(***************************************************************************)
UpperChars == <<"A", "B", "C", "D", "E", "F", "G", "H", "I", "J", "K", "L", "M", "N", "O", "P", "Q", "R", "S", "T", "U", "V", "W", "X", "Y", "Z">>
LowerChars == <<"a", "b", "c", "d", "e", "f", "g", "h", "i", "j", "k", "l", "m", "n", "o", "p", "q", "r", "s", "t", "u", "v", "w", "x", "y", "z">>

to_lower == [c \in {UpperChars[i] : i \in DOMAIN UpperChars} |->
                LowerChars[CHOOSE i \in DOMAIN UpperChars : UpperChars[i] = c]]
to_upper == [c \in {LowerChars[i] : i \in DOMAIN LowerChars} |->
                UpperChars[CHOOSE i \in DOMAIN LowerChars : LowerChars[i] = c]]

lower_char(c) == IF c \in DOMAIN to_lower THEN to_lower[c] ELSE c
upper_char(c) == IF c \in DOMAIN to_upper THEN to_upper[c] ELSE c

lower(s) == [i \in 1..Len(s) |-> lower_char(s[i])]
upper(s) == [i \in 1..Len(s) |-> upper_char(s[i])]

isspace(c) == c \in {" ", "\t", "\n", "\r", "\f"}

RECURSIVE lstrip(_)
lstrip(s) == IF s # <<>> /\ isspace(Head(s)) THEN lstrip(Tail(s)) ELSE s

RECURSIVE rstrip(_)
rstrip(s) ==
    IF s # <<>> /\ isspace(s[Len(s)]) THEN rstrip(SubSeq(s, 1, Len(s) - 1)) ELSE s

strip(s) == rstrip(lstrip(s))

\* s.split()[0] of a string with no leading whitespace: the characters before
\* the first whitespace character.
RECURSIVE first_word(_)
first_word(s) ==
    IF s = <<>> \/ isspace(Head(s)) THEN <<>> ELSE <<Head(s)>> \o first_word(Tail(s))

\* s[n:]
slice_from(s, n) == SubSeq(s, n + 1, Len(s))

\* index of the first c in s at or after position from, 0 when there is none
index_of(s, c, from) ==
    IF \E i \in from..Len(s) : s[i] = c
    THEN CHOOSE i \in from..Len(s) : s[i] = c /\ \A j \in from..(i - 1) : s[j] # c
    ELSE 0

contains(s, c) == \E i \in DOMAIN s : s[i] = c

(***************************************************************************)
(* TYPE_MAP: the declared type names and the literal type of each.         *)
(***************************************************************************)
TYPE_MAP ==
    ( <<"b", "o", "o", "l">>                              :> "BOOLEAN"
   @@ <<"d", "a", "t", "e">>                              :> "DATE"
   @@ <<"d", "a", "t", "e", "/", "t", "i", "m", "e">>     :> "DATE_TIME"
   @@ <<"d", "a", "t", "e", "t", "i", "m", "e">>          :> "DATE_TIME"
   @@ <<"d", "o", "u", "b", "l", "e">>                    :> "FLOAT"
   @@ <<"f", "l", "o", "a", "t">>                         :> "FLOAT"
   @@ <<"i", "n", "t">>                                   :> "INTEGER"
   @@ <<"i", "n", "t", "e", "g", "e", "r">>               :> "INTEGER"
   @@ <<"n", "o", "n", "e">>                              :> "NULL"
   @@ <<"n", "u", "l", "l">>                              :> "NULL"
   @@ <<"s", "t", "r">>                                   :> "STRING"
   @@ <<"s", "t", "r", "i", "n", "g">>                    :> "STRING" )

(***************************************************************************)
(* _parse_field_mapping_line                                               *)
(***************************************************************************)
NULLABLE == <<"n", "u", "l", "l", "a", "b", "l", "e">>

\* The scanner's locals before the loop.  field_name = None and
\* value_template = None are the flags has_name = FALSE, has_template = FALSE.
scan_start ==
    [field_type |-> <<>>, has_name |-> FALSE, field_name |-> <<>>,
     has_template |-> FALSE, value_template |-> <<>>, in_brackets |-> FALSE]

\* scan_char changed: whitespace inside the name is skipped, not kept
scan_char_drops_inner_space(st, char) ==
    IF st.has_template
    THEN [st EXCEPT !.value_template = Append(@, char)]
    ELSE IF st.has_name
    THEN IF ~st.in_brackets /\ char = ":"
         THEN [st EXCEPT !.has_template = TRUE]
         ELSE IF st.in_brackets /\ char = "]"
         THEN [st EXCEPT !.in_brackets = FALSE]
         ELSE IF st.field_name = <<>> /\ char = "["
         THEN [st EXCEPT !.in_brackets = TRUE]
         ELSE IF isspace(char) THEN st
         ELSE [st EXCEPT !.field_name = Append(@, char)]
    ELSE IF isspace(char)
    THEN [st EXCEPT !.has_name = TRUE]
    ELSE [st EXCEPT !.field_type = Append(@, char)]

\* One iteration of "for char in line".
scan_char(st, char) ==
    IF st.has_template
    THEN [st EXCEPT !.value_template = Append(@, char)]
    ELSE IF st.has_name
    THEN IF ~st.in_brackets /\ char = ":"
         THEN [st EXCEPT !.has_template = TRUE]
         ELSE IF st.in_brackets /\ char = "]"
         THEN [st EXCEPT !.in_brackets = FALSE]
         ELSE IF st.field_name = <<>> /\ char = "["
         THEN [st EXCEPT !.in_brackets = TRUE]
         ELSE [st EXCEPT !.field_name = Append(@, char)]
    ELSE IF isspace(char)
    THEN [st EXCEPT !.has_name = TRUE]
    ELSE [st EXCEPT !.field_type = Append(@, char)]

RECURSIVE scan(_, _)
scan(st, s) == IF s = <<>> THEN st ELSE scan(scan_char(st, Head(s)), Tail(s))

\* The two asserts that end the function, on the stripped locals.
\* (None and '' are both falsy.)
well_formed(field_type, st) ==
    /\ field_type # <<>>
    /\ st.has_name /\ strip(st.field_name) # <<>>
    /\ st.has_template /\ strip(st.value_template) # <<>>
    /\ ~st.in_brackets

known_type(field_type) == field_type \in DOMAIN TYPE_MAP

_parse_field_mapping_line(ln) ==
    LET stripped == strip(ln)
        nullable == lower(first_word(stripped)) = NULLABLE
        body     == IF nullable THEN strip(slice_from(stripped, 8)) ELSE stripped
        st       == scan(scan_start, body)
        field_type == lower(strip(st.field_type))
    IN  IF stripped = <<>>
        THEN [ok |-> FALSE, error |-> "IndexError"]
        ELSE IF ~well_formed(field_type, st)
        THEN [ok |-> FALSE, error |-> "AssertionError"]
        ELSE IF ~known_type(field_type)
        THEN [ok |-> FALSE, error |-> "AssertionError"]
        ELSE [ok |-> TRUE,
              nullable |-> nullable,
              field_type |-> field_type,
              field_name |-> strip(st.field_name),
              value_template |-> strip(st.value_template)]

(***************************************************************************)
(* str.format_map(kwargs) on a value template.  Replacement fields are     *)
(* plain names: conversions ("!r"), format specs (":>4"), attribute and    *)
(* index lookups are outside the templates modelled here.                  *)
(***************************************************************************)
Digits == <<"0", "1", "2", "3", "4", "5", "6", "7", "8", "9">>
isdigit(c) == \E i \in DOMAIN Digits : Digits[i] = c
digit_value(c) == (CHOOSE i \in DOMAIN Digits : Digits[i] = c) - 1
all_digits(s) == \A i \in DOMAIN s : isdigit(s[i])

RECURSIVE format_from(_, _, _)
format_from(t, kwargs, out) ==
    IF t = <<>> THEN [ok |-> TRUE, value |-> out]
    ELSE IF Head(t) = "{"
    THEN IF Len(t) >= 2 /\ t[2] = "{"
         THEN format_from(SubSeq(t, 3, Len(t)), kwargs, Append(out, "{"))
         ELSE LET close == index_of(t, "}", 2)
                  field == SubSeq(t, 2, close - 1)
              IN  IF close = 0 \/ contains(field, "{")
                  THEN [ok |-> FALSE, error |-> "ValueError"]
                  ELSE IF all_digits(field)   \* '{}' and '{0}': positional
                  THEN [ok |-> FALSE, error |-> "ValueError"]
                  ELSE IF field \notin DOMAIN kwargs
                  THEN [ok |-> FALSE, error |-> "KeyError"]
                  ELSE format_from(SubSeq(t, close + 1, Len(t)), kwargs,
                                   out \o kwargs[field])
    ELSE IF Head(t) = "}"
    THEN IF Len(t) >= 2 /\ t[2] = "}"
         THEN format_from(SubSeq(t, 3, Len(t)), kwargs, Append(out, "}"))
         ELSE [ok |-> FALSE, error |-> "ValueError"]
    ELSE format_from(Tail(t), kwargs, Append(out, Head(t)))

format_map(template, kwargs) == format_from(template, kwargs, <<>>)

(***************************************************************************)
(* TYPE_PARSER_MAP: the parser of each literal type.  A parser returns     *)
(* [ok |-> TRUE, value |-> v] or [ok |-> FALSE, error |-> exception].      *)
(***************************************************************************)
None == [py |-> "NoneType"]
py_str(s) == [py |-> "str", v |-> s]
py_int(n) == [py |-> "int", v |-> n]
py_bool(b) == [py |-> "bool", v |-> b]
\* decimal.Decimal: sign, coefficient and exponent, kept exactly
py_decimal(sign, coefficient, exponent) ==
    [py |-> "Decimal", sign |-> sign, coefficient |-> coefficient, exponent |-> exponent]
py_decimal_special(sign, what) == [py |-> "Decimal", sign |-> sign, special |-> what]
py_date(y, m, d) == [py |-> "date", year |-> y, month |-> m, day |-> d]
py_datetime(y, m, d, hh, mm, ss) ==
    [py |-> "datetime", year |-> y, month |-> m, day |-> d,
     hour |-> hh, minute |-> mm, second |-> ss]

returns(v) == [ok |-> TRUE, value |-> v]
raises(e) == [ok |-> FALSE, error |-> e]

RECURSIVE digits_value(_, _)
digits_value(s, acc) ==
    IF s = <<>> THEN acc ELSE digits_value(Tail(s), 10 * acc + digit_value(Head(s)))

has_sign(s) == s # <<>> /\ Head(s) \in {"+", "-"}
unsigned(s) == IF has_sign(s) THEN Tail(s) ELSE s
sign_of(s) == IF s # <<>> /\ Head(s) = "-" THEN 1 ELSE 0

\* digits, with single underscores allowed between digits
RECURSIVE grouped_digits(_)
grouped_digits(s) ==
    /\ s # <<>>
    /\ isdigit(Head(s))
    /\ \/ Len(s) = 1
       \/ s[2] = "_" /\ grouped_digits(SubSeq(s, 3, Len(s)))
       \/ s[2] # "_" /\ grouped_digits(Tail(s))

without(s, c) == SelectSeq(s, LAMBDA x : x # c)

\* int(string): base 10, surrounding whitespace and a sign allowed
int_parser(string) ==
    LET body == unsigned(strip(string))
    IN  IF grouped_digits(body)
        THEN returns(py_int((IF sign_of(strip(string)) = 1 THEN -1 ELSE 1)
                            * digits_value(without(body, "_"), 0)))
        ELSE raises("ValueError")

\* decimal.Decimal(string): [sign] digits [. digits] [e [sign] digits],
\* or [sign] inf | infinity | nan | snan, underscores ignored
decimal_parser(string) ==
    LET text  == without(strip(string), "_")
        sign  == sign_of(text)
        body  == lower(unsigned(text))
        epos  == index_of(body, "e", 1)
        mant  == IF epos = 0 THEN body ELSE SubSeq(body, 1, epos - 1)
        expo  == IF epos = 0 THEN <<>> ELSE SubSeq(body, epos + 1, Len(body))
        dot   == index_of(mant, ".", 1)
        ipart == IF dot = 0 THEN mant ELSE SubSeq(mant, 1, dot - 1)
        fpart == IF dot = 0 THEN <<>> ELSE SubSeq(mant, dot + 1, Len(mant))
        expv  == IF epos = 0 THEN 0
                 ELSE (IF sign_of(expo) = 1 THEN -1 ELSE 1) * digits_value(unsigned(expo), 0)
    IN  IF body \in { <<"i", "n", "f">>, <<"i", "n", "f", "i", "n", "i", "t", "y">> }
        THEN returns(py_decimal_special(sign, "Infinity"))
        ELSE IF Len(body) >= 3 /\ SubSeq(body, 1, 3) = <<"n", "a", "n">>
                /\ all_digits(SubSeq(body, 4, Len(body)))
        THEN returns(py_decimal_special(sign, "NaN"))
        ELSE IF Len(body) >= 4 /\ SubSeq(body, 1, 4) = <<"s", "n", "a", "n">>
                /\ all_digits(SubSeq(body, 5, Len(body)))
        THEN returns(py_decimal_special(sign, "sNaN"))
        ELSE IF /\ all_digits(ipart) /\ all_digits(fpart)
                /\ ipart \o fpart # <<>>
                /\ (epos # 0 => unsigned(expo) # <<>> /\ all_digits(unsigned(expo)))
        THEN returns(py_decimal(sign, digits_value(ipart \o fpart, 0), expv - Len(fpart)))
        ELSE raises("InvalidOperation")

_null_parser(string) ==
    IF lower(string) \in { <<>>, <<"n", "u", "l", "l">>, <<"n", "o", "n", "e">>,
                           <<"n", "i", "l">> }
    THEN returns(None)
    ELSE raises("AssertionError")

\* ast.literal_eval on one plain quoted literal: same quote at both ends, no
\* quote, backslash or line break inside.  Prefixed, triple-quoted, escaped
\* and juxtaposed literals are outside the strings modelled here.
is_plain_literal(s) ==
    /\ Len(s) >= 2
    /\ Head(s) \in {"'", "\""}
    /\ s[Len(s)] = Head(s)
    /\ \A i \in 2..(Len(s) - 1) : s[i] \notin {Head(s), "\\", "\n", "\r"}

_string_parser(string) ==
    IF is_plain_literal(strip(string))
    THEN returns(py_str(SubSeq(strip(string), 2, Len(strip(string)) - 1)))
    ELSE returns(py_str(string))

\* strings.parse_bool: the true/false tokens, case-insensitive
parse_bool(string) ==
    IF lower(string) = <<"t", "r", "u", "e">> THEN returns(py_bool(TRUE))
    ELSE IF lower(string) = <<"f", "a", "l", "s", "e">> THEN returns(py_bool(FALSE))
    ELSE raises("ValueError")

number_at(s, from, to) == digits_value(SubSeq(s, from, to), 0)

\* the shape of a string against a pattern where "d" stands for any digit
matches(s, pattern) ==
    /\ Len(s) = Len(pattern)
    /\ \A i \in DOMAIN s : IF pattern[i] = "d" THEN isdigit(s[i]) ELSE s[i] = pattern[i]

STANDARD_DATE_FORMAT == <<"d", "d", "d", "d", "-", "d", "d", "-", "d", "d">>
STANDARD_DATETIME_FORMAT ==
    STANDARD_DATE_FORMAT \o <<" ", "d", "d", ":", "d", "d", ":", "d", "d">>

valid_date(s) ==
    /\ number_at(s, 1, 4) >= 1
    /\ number_at(s, 6, 7) \in 1..12
    /\ number_at(s, 9, 10) \in 1..31

\* strings.parse_date: YYYY-MM-DD
parse_date(string) ==
    IF matches(string, STANDARD_DATE_FORMAT) /\ valid_date(string)
    THEN returns(py_date(number_at(string, 1, 4), number_at(string, 6, 7),
                         number_at(string, 9, 10)))
    ELSE raises("ValueError")

\* strings.parse_datetime: YYYY-MM-DD HH:MM:SS
parse_datetime(string) ==
    IF /\ matches(string, STANDARD_DATETIME_FORMAT) /\ valid_date(string)
       /\ number_at(string, 12, 13) \in 0..23
       /\ number_at(string, 15, 16) \in 0..59
       /\ number_at(string, 18, 19) \in 0..59
    THEN returns(py_datetime(number_at(string, 1, 4), number_at(string, 6, 7),
                             number_at(string, 9, 10), number_at(string, 12, 13),
                             number_at(string, 15, 16), number_at(string, 18, 19)))
    ELSE raises("ValueError")

TYPE_PARSER_MAP(sql_type, string) ==
    CASE sql_type = "DATE"      -> parse_date(string)
      [] sql_type = "DATE_TIME" -> parse_datetime(string)
      [] sql_type = "FLOAT"     -> decimal_parser(string)
      [] sql_type = "BOOLEAN"   -> parse_bool(string)
      [] sql_type = "INTEGER"   -> int_parser(string)
      [] sql_type = "NULL"      -> _null_parser(string)
      [] sql_type = "STRING"    -> _string_parser(string)

(***************************************************************************)
(* SQLNotifier.__init__ and SQLNotifier.load_config_section.               *)
(* An optional argument is [some |-> FALSE] (None / not given) or          *)
(* [some |-> TRUE, v |-> value].  A field entry is the 4-tuple             *)
(* (nullable, field_type, field_name, value_template) as a record.         *)
(***************************************************************************)
absent == [some |-> FALSE]
supplied(v) == [some |-> TRUE, v |-> v]

INSERT == <<"I", "N", "S", "E", "R", "T">>
UPDATE == <<"U", "P", "D", "A", "T", "E">>

entry(nullable, field_type, field_name, value_template) ==
    [nullable |-> nullable, field_type |-> field_type,
     field_name |-> field_name, value_template |-> value_template]

\* valid_entry changed: the type is not looked up in TYPE_MAP
valid_entry_any_type(e) ==
    /\ e.field_type # <<>>
    /\ e.field_name # <<>>

\* the checks __init__ makes on one entry of fields: field_type and field_name
\* are non-empty strings, value_template is a string, the lower-cased type is
\* a key of TYPE_MAP
valid_entry(e) ==
    /\ e.field_type # <<>>
    /\ e.field_name # <<>>
    /\ known_type(lower(e.field_type))

__init__(table, fields, command_type) ==
    IF command_type.some /\ command_type.v = <<>> THEN raises("verify_type")
    ELSE IF table = <<>> THEN raises("verify_type")
    ELSE IF command_type.some /\ upper(command_type.v) \notin {INSERT, UPDATE}
    THEN raises("AssertionError")
    ELSE IF \E i \in DOMAIN fields : ~valid_entry(fields[i])
    THEN raises(IF LET i == CHOOSE j \in DOMAIN fields :
                              ~valid_entry(fields[j])
                              /\ \A k \in 1..(j - 1) : valid_entry(fields[k])
                       IN  fields[i].field_type = <<>> \/ fields[i].field_name = <<>>
                THEN "verify_type" ELSE "AssertionError")
    ELSE returns([_table |-> table,
                  _fields |-> [i \in DOMAIN fields |->
                                  [fields[i] EXCEPT !.field_type = lower(@)]],
                  _command_type |-> IF command_type.some THEN upper(command_type.v)
                                    ELSE INSERT])

\* The 'Command Type', 'Table' and 'Field Mapping' options of the section.
\* field_mapping is the option's text as its sequence of lines.
load_config_section(command_type, table, field_mapping) ==
    LET kind   == IF command_type.some /\ command_type.v # <<>>
                  THEN upper(command_type.v) ELSE INSERT
        lines  == SelectSeq(field_mapping, LAMBDA ln : strip(ln) # <<>>)
        result == [i \in DOMAIN lines |-> _parse_field_mapping_line(lines[i])]
    IN  IF kind \notin {INSERT, UPDATE} THEN raises("AssertionError")
        ELSE IF table = <<>> THEN raises("verify_type")
        ELSE IF lines = <<>> THEN raises("verify_type")
        ELSE IF \E i \in DOMAIN result : ~result[i].ok
        THEN raises((result[CHOOSE i \in DOMAIN result :
                               ~result[i].ok /\ \A k \in 1..(i - 1) : result[k].ok]).error)
        ELSE __init__(table,
                      [i \in DOMAIN result |->
                          entry(result[i].nullable, result[i].field_type,
                                result[i].field_name, result[i].value_template)],
                      supplied(kind))

(***************************************************************************)
(* SQLNotifier.__call__                                                    *)
(***************************************************************************)
ATTACHMENTS == <<"a", "t", "t", "a", "c", "h", "m", "e", "n", "t", "s">>
MSG == <<"m", "s", "g">>

\* bind_call changed: no msg parameter, msg lands in kwargs
bind_call_keeps_msg(named) ==
    [msg         |-> absent,
     attachments |-> IF ATTACHMENTS \in DOMAIN named
                     THEN supplied(named[ATTACHMENTS]) ELSE absent,
     kwargs      |-> [k \in DOMAIN named \ {ATTACHMENTS} |-> named[k]]]

\* def __call__(self, msg=None, attachments=None, **kwargs): how the named
\* arguments of a call are bound to the parameters
bind_call(named) ==
    [msg         |-> IF MSG \in DOMAIN named THEN supplied(named[MSG]) ELSE absent,
     attachments |-> IF ATTACHMENTS \in DOMAIN named
                     THEN supplied(named[ATTACHMENTS]) ELSE absent,
     kwargs      |-> [k \in DOMAIN named \ {MSG, ATTACHMENTS} |-> named[k]]]

\* rejects_attachments changed: attachments are ignored
ignores_attachments(attachments) == FALSE

\* if attachments is not None
rejects_attachments(attachments) == attachments.some

\* T[self._table].insert() / .update()
new_command(table, command_type) ==
    [table |-> table,
     kind  |-> IF command_type = INSERT THEN "insert" ELSE "update",
     sets  |-> <<>>]

\* V(value, sql_type)
V(value, sql_type) == [value |-> value, sql_type |-> sql_type]

\* command_set changed: the assignment is put first, not last
command_set_first(command, field_name, v) ==
    [command EXCEPT !.sets = <<[column |-> field_name, value |-> v]>> \o @]

\* command.set(**{field_name: v})
command_set(command, field_name, v) ==
    [command EXCEPT !.sets = Append(@, [column |-> field_name, value |-> v])]

\* null_override changed: the comparison is case-sensitive
null_override_case_sensitive(nullable, value_str) ==
    nullable /\ value_str \in { <<>>, <<"n", "o", "n", "e">>, <<"n", "u", "l", "l">> }

\* nullable and value_str.lower() in ('', 'none', 'null')
null_override(nullable, value_str) ==
    nullable /\ lower(value_str) \in { <<>>, <<"n", "o", "n", "e">>, <<"n", "u", "l", "l">> }

\* the single element of a one-element set
the(S) == CHOOSE x \in S : TRUE

\* One iteration of the loop over self._fields, for entry number i: the
\* calls it makes, in order, and the value it assigns or the exception.
field_body(i, e, kwargs) ==
    LET f == format_map(e.value_template, kwargs)
        formatted == IF f.ok
                     THEN [op |-> "format_map", field |-> i, ok |-> TRUE,
                           value_str |-> f.value]
                     ELSE [op |-> "format_map", field |-> i, ok |-> FALSE]
    IN  IF ~f.ok
        THEN [ok |-> FALSE, error |-> f.error, steps |-> <<formatted>>]
        ELSE IF null_override(e.nullable, f.value)
        THEN [ok |-> TRUE, value |-> V(None, "NULL"), steps |-> <<formatted>>]
        ELSE IF e.field_type \notin DOMAIN TYPE_MAP
        THEN [ok |-> FALSE, error |-> "KeyError: TYPE_MAP", steps |-> <<formatted>>]
        ELSE LET sql_type == TYPE_MAP[e.field_type]
                 p == TYPE_PARSER_MAP(sql_type, f.value)
                 coerced == [op |-> "parser", field |-> i, sql_type |-> sql_type,
                             ok |-> p.ok]
             IN  IF ~p.ok
                 THEN [ok |-> FALSE, error |-> p.error, steps |-> <<formatted, coerced>>]
                 ELSE [ok |-> TRUE, value |-> V(p.value, sql_type),
                       steps |-> <<formatted, coerced>>]

\* for nullable, field_type, field_name, value_template in self._fields: ...
\* from entry number i on; the first exception ends the loop and the call.
RECURSIVE run_fields(_, _, _, _, _)
run_fields(fields, i, kwargs, command, steps) ==
    IF i > Len(fields)
    THEN [error |-> "", failed |-> 0, command |-> command, steps |-> steps]
    ELSE the({ IF ~b.ok
               THEN [error |-> b.error, failed |-> i, command |-> command,
                     steps |-> steps \o b.steps]
               ELSE run_fields(fields, i + 1, kwargs,
                               command_set(command, fields[i].field_name, b.value),
                               steps \o b.steps
                                 \o << [op |-> "set", field |-> i,
                                        column |-> fields[i].field_name,
                                        value |-> b.value] >>)
               : b \in {field_body(i, fields[i], kwargs)} })

\* __call__ changed: attachments are looked at after the fields
call_checks_attachments_last(self, msg, attachments, kwargs) ==
    the({ IF r.error = "" /\ rejects_attachments(attachments)
          THEN [error |-> "OperationNotSupportedError", failed |-> 0,
                command |-> r.command, steps |-> r.steps]
          ELSE r
          : r \in {run_fields(self._fields, 1, kwargs,
                              new_command(self._table, self._command_type), <<>>)} })

\* The call up to, not including, self._connection.execute(command).
__call__(self, msg, attachments, kwargs) ==
    IF rejects_attachments(attachments)
    THEN [error |-> "OperationNotSupportedError", failed |-> 0,
          command |-> new_command(self._table, self._command_type), steps |-> <<>>]
    ELSE run_fields(self._fields, 1, kwargs,
                    new_command(self._table, self._command_type), <<>>)

(***************************************************************************)
(* Lines handed to the parser.                                             *)
(***************************************************************************)
SeqsUpTo(A, n) == UNION {[1..k -> A] : k \in 0..n}

Prefixes ==
    { <<>>,
      NULLABLE \o <<" ">>,
      <<"N", "U", "L", "L", "A", "B", "L", "E", " ", " ">> }

KnownTypeTokens ==
    { <<"s", "t", "r", "i", "n", "g">>,
      <<"I", "N", "T">>,
      <<"D", "a", "t", "e", "/", "T", "i", "m", "e">> }

TypeTokens == KnownTypeTokens \cup { <<>>, <<"f", "o", "o">> }

RestAlphabet == {"a", " ", "[", "]", ":"}
NameAlphabet == {"a", " ", "[", ":"}

Separators == { <<" ">>, <<" ", " ">>, <<"\t">> }
AfterBracket == { <<>>, <<"b">> }
AfterColon == { <<>>, <<" ">> }
Templates == { <<>>, <<"v">>, <<"{", "x", "}", " ", "y">> }

FreeLines ==
    { pre \o <<"I", "N", "T">> \o rest :
        pre \in {<<>>, NULLABLE \o <<" ">>}, rest \in SeqsUpTo(RestAlphabet, MaxRest) }

BracketLines ==
    { pre \o t \o sep \o <<"[">> \o n \o <<"]">> \o b \o <<":">> \o g \o v :
        pre \in Prefixes, t \in TypeTokens, sep \in Separators,
        n \in SeqsUpTo(NameAlphabet, MaxName), b \in AfterBracket,
        g \in AfterColon, v \in Templates }

OddLines == { <<>>, <<" ">>, NULLABLE, NULLABLE \o <<" ", ":">> }

Lines == FreeLines \cup BracketLines \cup OddLines

NotParsed == [ok |-> FALSE, error |-> "not called"]
NoCall == [made |-> FALSE, n |-> 0]
NoArgs == [table |-> <<>>]

(***************************************************************************)
(* The line as the mapping grammar reads it: optional "nullable" keyword,  *)
(* a type token, whitespace, a name region (bare or bracketed), the        *)
(* terminating ':' and the value template.  Used to state the properties   *)
(* of the parser; the parser itself is _parse_field_mapping_line above.    *)
(***************************************************************************)
grammar(ln) ==
    LET stripped   == strip(ln)
        nullable   == lower(first_word(stripped)) = NULLABLE
        body       == IF nullable THEN strip(slice_from(stripped, 8)) ELSE stripped
        type       == first_word(body)
        \* what follows the type token, separating whitespace included
        tail       == slice_from(body, Len(type))
        region     == lstrip(tail)
        bracketed  == region # <<>> /\ Head(region) = "["
        close      == index_of(region, "]", 1)
        colon      == IF bracketed
                      THEN IF close = 0 THEN 0 ELSE index_of(region, ":", close + 1)
                      ELSE index_of(region, ":", 1)
    IN  [nullable  |-> nullable,
         keyword   |-> SubSeq(stripped, 1, Len(stripped) - Len(body)),
         type      |-> type,
         \* the whitespace between the type token and the name region
         gap       |-> SubSeq(tail, 1, Len(tail) - Len(region)),
         region    |-> region,
         bracketed |-> bracketed,
         close     |-> close,
         colon     |-> colon,
         \* content of the brackets, or the bare name up to the terminating ':'
         name      |-> IF bracketed THEN SubSeq(region, 2, close - 1)
                       ELSE SubSeq(region, 1, colon - 1),
         \* what stands between the closing ']' and the terminating ':'
         after     |-> IF bracketed THEN SubSeq(region, close + 1, colon - 1) ELSE <<>>,
         template  |-> IF colon = 0 THEN <<>> ELSE strip(slice_from(region, colon))]

trimmed(s) == strip(s) = s

was_parsed == parsed # NotParsed

\* the line with extra whitespace inserted between type token and name region
widened(ln, extra) ==
    LET g == grammar(ln)
    IN  g.keyword \o g.type \o g.gap \o extra \o g.region

(***************************************************************************)
(* C3 (as claimed): a line "[nullable ]T [N]: V" with T a known alias in   *)
(* any letter case, N non-empty without ']' and without leading or         *)
(* trailing whitespace, V non-empty and trimmed, parses to exactly         *)
(* (nullable given, lower-cased T, N, V).                                  *)
(***************************************************************************)
C3_form(g) ==
    /\ line = strip(line)
    /\ g.keyword \in {<<>>, NULLABLE \o <<" ">>}
    /\ known_type(lower(g.type))
    /\ g.gap = <<" ">>
    /\ g.bracketed
    /\ g.close > 2
    /\ trimmed(g.name)
    /\ g.colon = g.close + 1
    /\ Len(g.region) > g.colon + 1
    /\ g.region[g.colon + 1] = " "
    /\ ~isspace(g.region[g.colon + 2])

C3_RoundTrip ==
    LET g == grammar(line)
    IN  (was_parsed /\ C3_form(g)) =>
            parsed = [ok |-> TRUE,
                      nullable |-> g.keyword # <<>>,
                      field_type |-> lower(g.type),
                      field_name |-> g.name,
                      value_template |-> g.template]

(***************************************************************************)
(* C4 (as claimed): the parser fails for every line with an empty type     *)
(* token, an empty field name (an empty bracket pair included), an empty   *)
(* value template (nothing after the terminating ':' or no ':' at all),    *)
(* an unknown type token, or a '[' opening the name that is never closed.  *)
(***************************************************************************)
C4_empty_type(g) == g.type = <<>>
C4_unknown_type(g) == ~known_type(lower(g.type))
C4_empty_name(g) ==
    \/ g.region = <<>>
    \/ ~g.bracketed /\ g.colon = 1
    \/ g.bracketed /\ g.close = 2 /\ g.colon = 3
C4_empty_template(g) == g.colon = 0 \/ g.template = <<>>
C4_unterminated(g) == g.bracketed /\ g.close = 0

C4_malformed(g) ==
    \/ C4_empty_type(g)
    \/ C4_unknown_type(g)
    \/ C4_empty_name(g)
    \/ C4_empty_template(g)
    \/ C4_unterminated(g)

C4_MalformedFails ==
    (was_parsed /\ C4_malformed(grammar(line))) => ~parsed.ok

\* the same statement for lines whose type and name are separated by at most
\* one whitespace character
C4_MalformedFailsSingleGap ==
    LET g == grammar(line)
    IN  (was_parsed /\ C4_malformed(g) /\ Len(g.gap) <= 1) => ~parsed.ok

(***************************************************************************)
(* C9 (as claimed): the amount of whitespace between the type token and    *)
(* the name region does not change the parse: a line with one whitespace   *)
(* character there and the same line with more parse to the same result.   *)
(***************************************************************************)
C9_GapIrrelevant ==
    (was_parsed /\ Len(grammar(line).gap) = 1) =>
        \A extra \in Separators : _parse_field_mapping_line(widened(line, extra)) = parsed

\* the same statement for bare (un-bracketed) name regions only
C9_GapIrrelevantBare ==
    LET g == grammar(line)
    IN  (was_parsed /\ Len(g.gap) = 1 /\ ~g.bracketed) =>
            \A extra \in Separators :
                _parse_field_mapping_line(widened(line, extra)) = parsed

(***************************************************************************)
(* C10 (as claimed): an un-bracketed name must be a bare token; the parser *)
(* fails when the un-bracketed name region holds whitespace between name   *)
(* characters, a '[' after the first name character, or a ']', and when    *)
(* anything but the terminating ':' follows the closing ']' of a bracketed *)
(* name.                                                                   *)
(***************************************************************************)
C10_not_bare(g) ==
    /\ ~g.bracketed
    /\ g.colon > 1
    /\ LET n == strip(g.name)
       IN  \/ \E i \in DOMAIN n : isspace(n[i])
           \/ \E i \in 2..Len(n) : n[i] = "["
           \/ contains(n, "]")

C10_trailing_after_bracket(g) ==
    /\ g.bracketed
    /\ g.close > 0
    /\ g.colon # g.close + 1

C10_BareTokenRequired ==
    LET g == grammar(line)
    IN  (was_parsed /\ (C10_not_bare(g) \/ C10_trailing_after_bracket(g))) => ~parsed.ok

(***************************************************************************)
(* C10 (amended): the parser is lenient about the name.  With a known type *)
(* and a non-empty template: (a) a name region that does not start with    *)
(* '[' is returned verbatim up to the first ':' (ends trimmed), inner      *)
(* whitespace, '[' and ']' included; (b) after exactly one separating      *)
(* whitespace, a bracketed region "[A]" with A non-empty and not starting  *)
(* with '[', followed by characters B before the ':', yields the name      *)
(* strip(A B) when that is non-empty.                                      *)
(***************************************************************************)
C10_lenient_bare(g) ==
    /\ known_type(lower(g.type))
    /\ ~g.bracketed
    /\ g.colon > 1
    /\ strip(g.name) # <<>>
    /\ g.template # <<>>

C10_lenient_bracket(g) ==
    /\ known_type(lower(g.type))
    /\ Len(g.gap) = 1
    /\ g.bracketed
    /\ g.close > 2
    /\ g.region[2] # "["
    /\ g.colon > 0
    /\ strip(g.name \o g.after) # <<>>
    /\ g.template # <<>>

C10_LenientName ==
    LET g == grammar(line)
    IN  /\ (was_parsed /\ C10_lenient_bare(g)) =>
               /\ parsed.ok
               /\ parsed.field_name = strip(g.name)
               /\ parsed.value_template = g.template
        /\ (was_parsed /\ C10_lenient_bracket(g)) =>
               /\ parsed.ok
               /\ parsed.field_name = strip(g.name \o g.after)
               /\ parsed.value_template = g.template

\* an accepted bare name holding inner whitespace together with a bracket
C10_Witness ==
    LET g == grammar(line)
    IN  /\ was_parsed /\ parsed.ok
        /\ C10_lenient_bare(g) /\ C10_not_bare(g)
        /\ \E i \in DOMAIN parsed.field_name : isspace(parsed.field_name[i])

(***************************************************************************)
(* Specification of the parser alone: a line is chosen, then parsed.       *)
(***************************************************************************)
InitParse ==
    /\ line \in Lines
    /\ parsed = NotParsed
    /\ status = "unbuilt"
    /\ via = "none"
    /\ given = NoArgs
    /\ _table = <<>>
    /\ _fields = <<>>
    /\ _command_type = <<>>
    /\ executed = <<>>
    /\ call = NoCall

ParseLine ==
    /\ parsed = NotParsed
    /\ parsed' = _parse_field_mapping_line(line)
    /\ UNCHANGED <<line, status, via, given, _table, _fields, _command_type, executed, call>>

NextParse == ParseLine

SpecParse == InitParse /\ [][NextParse]_vars

(***************************************************************************)
(* Arguments of construction and of dispatch.                              *)
(***************************************************************************)
NAME == <<"n", "a", "m", "e">>
COUNT == <<"c", "o", "u", "n", "t">>

Tables == { <<"E", "v", "e", "n", "t", "s">>, <<>> }

CommandTypes ==
    { absent, supplied(<<>>), supplied(<<"i", "n", "s", "e", "r", "t">>),
      supplied(<<"U", "p", "d", "a", "t", "e">>),
      supplied(<<"d", "e", "l", "e", "t", "e">>) }

FieldEntries ==
    { entry(FALSE, <<"s", "t", "r", "i", "n", "g">>, <<"N", "a", "m", "e">>,
            <<"{", "n", "a", "m", "e", "}">>),
      entry(TRUE, <<"I", "n", "t", "e", "g", "e", "r">>, <<"C", "o", "u", "n", "t">>,
            <<"{", "c", "o", "u", "n", "t", "}">>),
      entry(TRUE, <<"n", "u", "l", "l">>, <<"M", "s", "g">>, <<"{", "m", "s", "g", "}">>),
      entry(FALSE, <<"f", "l", "o", "a", "t">>, <<"C", "o", "u", "n", "t">>,
            <<"{", "c", "o", "u", "n", "t", "}">>),
      entry(TRUE, <<"b", "o", "o", "l">>, <<"F", "l", "a", "g">>,
            <<"{", "n", "a", "m", "e", "}">>),
      entry(FALSE, <<"s", "t", "r">>, <<"N", "o", "t", "e">>, <<>>),
      entry(FALSE, <<"f", "o", "o">>, <<"N", "a", "m", "e">>,
            <<"{", "n", "a", "m", "e", "}">>),
      entry(FALSE, <<"s", "t", "r", "i", "n", "g">>, <<>>,
            <<"{", "n", "a", "m", "e", "}">>) }

ConfigLines ==
    { <<"s", "t", "r", "i", "n", "g", " ", "N", "a", "m", "e", ":", " ", "{", "n", "a", "m", "e", "}">>,
      <<"n", "u", "l", "l", "a", "b", "l", "e", " ", "i", "n", "t", "e", "g", "e", "r", " ", "[", "C", "o", "u", "n", "t", "]", ":", " ", "{", "c", "o", "u", "n", "t", "}">>,
      <<"s", "t", "r", " ", " ", "[", "M", "s", "g", "]", ":", " ", "{", "m", "s", "g", "}">>,
      <<"f", "o", "o", " ", "N", "a", "m", "e", ":", " ", "{", "n", "a", "m", "e", "}">>,
      <<"s", "t", "r", "i", "n", "g", " ", "N", "a", "m", "e", ":">>,
      <<" ">> }

ArgValues ==
    ( NAME  :> { <<"X">>, <<"N", "O", "N", "E">>, <<"T", "R", "U", "E">> }
   @@ COUNT :> { <<>>, <<"1", "2">> }
   @@ MSG   :> { <<"n", "i", "l">> }
   @@ ATTACHMENTS :> { <<"f">> } )

\* the named arguments of a call: any subset of the names, each with a value
NamedArgs ==
    UNION { {f \in [S -> UNION {ArgValues[k] : k \in S}] : \A k \in S : f[k] \in ArgValues[k]} :
            S \in SUBSET DOMAIN ArgValues }

(***************************************************************************)
(* What a call should do, told from the notifier's fields and the named    *)
(* arguments alone.                                                        *)
(***************************************************************************)
context(named) == [k \in DOMAIN named \ {MSG, ATTACHMENTS} |-> named[k]]
with_attachments(named) == ATTACHMENTS \in DOMAIN named

interpolated(e, kwargs) == format_map(e.value_template, kwargs)
is_null_text(str) == lower(str) \in { <<>>, <<"n", "o", "n", "e">>, <<"n", "u", "l", "l">> }
coerced(e, str) == TYPE_PARSER_MAP(TYPE_MAP[e.field_type], str)

\* the exception entry e raises against kwargs, "" when it resolves
field_error(e, kwargs) ==
    IF ~interpolated(e, kwargs).ok THEN interpolated(e, kwargs).error
    ELSE IF e.nullable /\ is_null_text(interpolated(e, kwargs).value) THEN ""
    ELSE IF ~coerced(e, interpolated(e, kwargs).value).ok
    THEN coerced(e, interpolated(e, kwargs).value).error
    ELSE ""

failing_fields(named) ==
    {i \in DOMAIN _fields : field_error(_fields[i], context(named)) # ""}

first_failing(named) ==
    IF failing_fields(named) = {} THEN 0
    ELSE CHOOSE i \in failing_fields(named) : \A j \in failing_fields(named) : i <= j

should_execute(named) == ~with_attachments(named) /\ failing_fields(named) = {}

executes_in(steps) == Cardinality({k \in DOMAIN steps : steps[k].op = "execute"})

placeholder(k) == <<"{">> \o k \o <<"}">>

(***************************************************************************)
(* C1: one dispatch call makes exactly one call to the connection's        *)
(* execute when attachments is absent and every field interpolates and     *)
(* coerces, and none otherwise; never more than one, never one after a     *)
(* failure.                                                                *)
(***************************************************************************)
C1_ExecuteOnceOrNever ==
    [][ (call'.made /\ ~call.made) =>
            /\ Len(executed') - Len(executed)
                 = (IF should_execute(call'.named) THEN 1 ELSE 0)
            /\ executes_in(call'.steps) = Len(executed') - Len(executed)
            /\ SubSeq(executed', 1, Len(executed)) = executed
            /\ \A k \in DOMAIN call'.steps :
                  call'.steps[k].op = "execute" =>
                      /\ k = Len(call'.steps)
                      /\ \A j \in 1..(k - 1) :
                            call'.steps[j].op \in {"format_map", "parser"}
                                => call'.steps[j].ok ]_vars

\* a call on two fields that reached execute, and it was the only execute
C1_Witness ==
    /\ call.made /\ call.outcome = "returned"
    /\ Len(_fields) >= 2
    /\ Len(executed) = 1 /\ executes_in(call.steps) = 1

(***************************************************************************)
(* C2: in dispatch, a nullable field whose interpolated string is, case-   *)
(* insensitively, "", "none" or "null" is assigned explicit NULL (literal  *)
(* type NULL) and no coercion rule runs for it; every other field is       *)
(* assigned the result of its declared type's coercion of that string.     *)
(***************************************************************************)
C2_NullOverride ==
    call.made =>
        \A k \in DOMAIN call.steps :
            (call.steps[k].op = "format_map" /\ call.steps[k].ok) =>
                LET i == call.steps[k].field
                    e == _fields[i]
                    str == interpolated(e, context(call.named)).value
                IN  /\ call.steps[k].value_str = str
                    /\ k < Len(call.steps)
                    /\ call.steps[k + 1].field = i
                    /\ IF e.nullable /\ is_null_text(str)
                       THEN /\ call.steps[k + 1].op = "set"
                            /\ call.steps[k + 1].value = [value |-> None, sql_type |-> "NULL"]
                       ELSE /\ call.steps[k + 1].op = "parser"
                            /\ call.steps[k + 1].sql_type = TYPE_MAP[e.field_type]
                            /\ call.steps[k + 1].ok = coerced(e, str).ok
                            /\ call.steps[k + 1].ok =>
                                  /\ k + 1 < Len(call.steps)
                                  /\ call.steps[k + 2].op = "set"
                                  /\ call.steps[k + 2].field = i
                                  /\ call.steps[k + 2].value =
                                        [value |-> coerced(e, str).value,
                                         sql_type |-> TYPE_MAP[e.field_type]]

\* a nullable field of a non-NULL type given "NONE" was assigned NULL, next
\* to a field that went through its coercion rule
C2_Witness ==
    /\ call.made
    /\ \E k \in DOMAIN call.steps :
          /\ call.steps[k].op = "set"
          /\ call.steps[k].value = [value |-> None, sql_type |-> "NULL"]
          /\ _fields[call.steps[k].field].field_type = <<"b", "o", "o", "l">>
          /\ call.steps[k - 1].op = "format_map"
          /\ call.steps[k - 1].value_str = <<"N", "O", "N", "E">>
    /\ \E k \in DOMAIN call.steps :
          call.steps[k].op = "parser" /\ call.steps[k].ok

(***************************************************************************)
(* C5: on a successful dispatch the executed command is on the configured  *)
(* table, has the configured kind (INSERT when none was given, else INSERT *)
(* or UPDATE matched case-insensitively) and carries one assignment per    *)
(* field mapping, in field order, each with the field's name as column.    *)
(***************************************************************************)
configured_kind ==
    IF ~given.command_type.some \/ given.command_type.v = <<>> THEN "insert"
    ELSE IF upper(given.command_type.v) = INSERT THEN "insert"
    ELSE "update"

set_steps(steps) == SelectSeq(steps, LAMBDA st : st.op = "set")

C5_CommandShape ==
    (call.made /\ call.outcome \in {"returned", "connection error"}) =>
        LET command == executed[Len(executed)]
        IN  /\ command.table = given.table
            /\ command.kind = configured_kind
            /\ Len(command.sets) = Len(_fields)
            /\ via = "__init__" => Len(command.sets) = Len(given.fields)
            /\ \A i \in DOMAIN command.sets :
                  /\ command.sets[i].column = _fields[i].field_name
                  /\ via = "__init__" =>
                        command.sets[i].column = given.fields[i].field_name
                  /\ set_steps(call.steps)[i].field = i
                  /\ command.sets[i].value = set_steps(call.steps)[i].value

\* fields [(false,string,Name,"{name}"), (true,integer,Count,"{count}")]
\* dispatched with name="X", count="" assigned Name="X" then Count=NULL
C5_Witness ==
    /\ call.made /\ call.outcome = "returned"
    /\ ~given.command_type.some
    /\ call.named = (NAME :> <<"X">> @@ COUNT :> <<>>)
    /\ _fields = << entry(FALSE, <<"s", "t", "r", "i", "n", "g">>, <<"N", "a", "m", "e">>,
                          <<"{", "n", "a", "m", "e", "}">>),
                    entry(TRUE, <<"i", "n", "t", "e", "g", "e", "r">>,
                          <<"C", "o", "u", "n", "t">>,
                          <<"{", "c", "o", "u", "n", "t", "}">>) >>
    /\ executed = << [table |-> <<"E", "v", "e", "n", "t", "s">>,
                      kind  |-> "insert",
                      sets  |-> << [column |-> <<"N", "a", "m", "e">>,
                                    value  |-> [value |-> py_str(<<"X">>),
                                                sql_type |-> "STRING"]],
                                   [column |-> <<"C", "o", "u", "n", "t">>,
                                    value  |-> [value |-> None, sql_type |-> "NULL"]] >>] >>

(***************************************************************************)
(* C6 (as claimed): every named argument other than attachments is part    *)
(* of the context: a template that is the placeholder {k} of a supplied    *)
(* key k is interpolated with k's value and does not fail as missing.      *)
(***************************************************************************)
interpolation_step(i) ==
    call.steps[CHOOSE k \in DOMAIN call.steps :
                  call.steps[k].op = "format_map" /\ call.steps[k].field = i]

was_interpolated(i) ==
    \E k \in DOMAIN call.steps :
        call.steps[k].op = "format_map" /\ call.steps[k].field = i

C7_FieldsWellFormed ==
    status = "ready" =>
        \A i \in DOMAIN _fields :
            /\ known_type(_fields[i].field_type)
            /\ _fields[i].field_name # <<>>
            /\ _fields[i].value_template # <<>>

(***************************************************************************)
(* C7 (amended): a constructed dispatcher holds only field mappings with   *)
(* a known declared type and a non-empty field name; the value template    *)
(* is non-empty when the dispatcher was loaded by load_config_section,     *)
(* while the constructor called directly accepts an empty template.  An    *)
(* unknown type or an empty name is rejected at construction, so no        *)
(* dispatch fails on an unknown declared type.                             *)
(***************************************************************************)
C7_ConstructedFieldsValid ==
    /\ status = "ready" =>
          \A i \in DOMAIN _fields :
              /\ known_type(_fields[i].field_type)
              /\ _fields[i].field_name # <<>>
              /\ via = "load_config_section" => _fields[i].value_template # <<>>
    /\ (via = "__init__"
          /\ \E i \in DOMAIN given.fields :
                \/ ~known_type(lower(given.fields[i].field_type))
                \/ given.fields[i].field_name = <<>>)
          => status = "rejected"
    /\ (via = "load_config_section"
          /\ \E i \in DOMAIN given.fields :
                /\ strip(given.fields[i]) # <<>>
                /\ ~_parse_field_mapping_line(given.fields[i]).ok)
          => status = "rejected"
    /\ call.made => call.outcome # "KeyError: TYPE_MAP"

\* a dispatcher built by the constructor with an empty template, dispatched
C7_Witness ==
    /\ status = "ready" /\ via = "__init__"
    /\ \E i \in DOMAIN _fields : _fields[i].value_template = <<>>
    /\ \E i \in DOMAIN given.fields : given.fields[i].field_type # _fields[i].field_type
    /\ call.made /\ call.outcome = "returned"

(***************************************************************************)
(* C8: dispatch reports the first failure in a fixed order and does no     *)
(* later step: supplied attachments fail before any interpolation; else    *)
(* fields are processed in order, each interpolated then coerced, and the  *)
(* error raised is that of the first failing field, no later field being   *)
(* interpolated or coerced.                                                *)
(***************************************************************************)
op_rank(op) == CASE op = "format_map" -> 1 [] op = "parser" -> 2 [] op = "set" -> 3
                 [] op = "execute" -> 4

C8_FirstFailureWins ==
    call.made =>
        IF with_attachments(call.named)
        THEN call.outcome = "OperationNotSupportedError" /\ call.steps = <<>>
        ELSE LET first == first_failing(call.named)
                 last  == IF first = 0 THEN Len(_fields) ELSE first
                 field_steps == SelectSeq(call.steps, LAMBDA st : st.op # "execute")
             IN  /\ call.failed = first
                 /\ first # 0 =>
                       /\ call.outcome = field_error(_fields[first], context(call.named))
                       /\ call.steps # <<>>
                       /\ call.steps[Len(call.steps)].field = first
                       /\ ~call.steps[Len(call.steps)].ok
                 /\ first = 0 => call.outcome \in {"returned", "connection error"}
                 /\ {field_steps[k].field : k \in DOMAIN field_steps} = 1..last
                 /\ \A k \in DOMAIN field_steps :
                       /\ field_steps[k].op = "format_map" =>
                             \A j \in 1..(k - 1) : field_steps[j].field < field_steps[k].field
                       /\ k > 1 =>
                             \/ field_steps[k - 1].field < field_steps[k].field
                             \/ /\ field_steps[k - 1].field = field_steps[k].field
                                /\ op_rank(field_steps[k - 1].op) < op_rank(field_steps[k].op)
                       /\ (field_steps[k].op \in {"format_map", "parser"}
                             /\ ~field_steps[k].ok) => k = Len(field_steps)

\* the first of two fields failed to coerce while the second lacked its
\* placeholder: the coercion error was raised and the second never touched
C8_Witness ==
    /\ call.made /\ ~with_attachments(call.named)
    /\ Len(_fields) = 2
    /\ failing_fields(call.named) = {1, 2}
    /\ interpolated(_fields[1], context(call.named)).ok
    /\ ~interpolated(_fields[2], context(call.named)).ok
    /\ call.failed = 1 /\ call.outcome # "KeyError"
    /\ \A k \in DOMAIN call.steps : call.steps[k].field = 1

(***************************************************************************)
(* Specification of the notifier: it is constructed, directly or from a    *)
(* config section, and then called.                                        *)
(***************************************************************************)
Init ==
    /\ line = <<>>
    /\ parsed = NotParsed
    /\ status = "unbuilt"
    /\ via = "none"
    /\ given = NoArgs
    /\ _table = <<>>
    /\ _fields = <<>>
    /\ _command_type = <<>>
    /\ executed = <<>>
    /\ call = NoCall

Constructed(how, args, r) ==
    /\ via' = how
    /\ given' = args
    /\ IF r.ok
       THEN /\ status' = "ready"
            /\ _table' = r.value._table
            /\ _fields' = r.value._fields
            /\ _command_type' = r.value._command_type
       ELSE /\ status' = "rejected"
            /\ UNCHANGED <<_table, _fields, _command_type>>
    /\ UNCHANGED <<line, parsed, executed, call>>

Construct ==
    /\ status = "unbuilt"
    /\ \E table \in Tables, command_type \in CommandTypes,
          fields \in SeqsUpTo(FieldEntries, MaxFields) :
          Constructed("__init__",
                      [table |-> table, fields |-> fields, command_type |-> command_type],
                      __init__(table, fields, command_type))

LoadConfigSection ==
    /\ status = "unbuilt"
    /\ \E table \in Tables, command_type \in CommandTypes,
          field_mapping \in SeqsUpTo(ConfigLines, MaxFields) :
          Constructed("load_config_section",
                      [table |-> table, fields |-> field_mapping,
                       command_type |-> command_type],
                      load_config_section(command_type, table, field_mapping))

self == [_table |-> _table, _fields |-> _fields, _command_type |-> _command_type]

\* notifier(**named); connection_raises: whether self._connection.execute
\* raises when it is called
Dispatch ==
    /\ status = "ready"
    /\ ~call.made
    /\ call.n < MaxCalls
    /\ \E named \in NamedArgs :
       \E b \in {bind_call(named)} :
       \E r \in {__call__(self, b.msg, b.attachments, b.kwargs)} :
       \E connection_raises \in (IF r.error = "" THEN BOOLEAN ELSE {FALSE}) :
          /\ executed' = IF r.error = "" THEN Append(executed, r.command) ELSE executed
          /\ call' = [made   |-> TRUE,
                      n      |-> call.n + 1,
                      named  |-> named,
                      steps  |-> IF r.error = ""
                                 THEN Append(r.steps, [op |-> "execute"])
                                 ELSE r.steps,
                      failed |-> r.failed,
                      outcome |-> IF r.error # "" THEN r.error
                                  ELSE IF connection_raises THEN "connection error"
                                  ELSE "returned"]
    /\ UNCHANGED <<line, parsed, status, via, given, _table, _fields, _command_type>>

\* the call has returned or raised; its frame is gone
Return ==
    /\ call.made
    /\ call' = [made |-> FALSE, n |-> call.n]
    /\ UNCHANGED <<line, parsed, status, via, given, _table, _fields, _command_type,
                   executed>>

Next == Construct \/ LoadConfigSection \/ Dispatch \/ Return

Spec == Init /\ [][Next]_vars

====
